---- MODULE Spec2Model ----
(***************************************************************************)
(* CommissionGuard ticket tracker: one application instance (the React     *)
(* component App) bound to a remote ticket collection.  Three variants of  *)
(* App exist in the repository:                                            *)
(*   "vercel"   src/src/App.jsx              window.confirm, client sort   *)
(*   "canvas"   src/unnamed/part_002:1-533   modal dialog,   client sort   *)
(*   "netlify"  src/unnamed/part_002:535-995 window.confirm, orderBy query *)
(* The variant is fixed in the initial state.  A React state change and    *)
(* the effect it triggers (cleanup of the previous effect, then the new    *)
(* effect body) are one step.                                              *)
(***************************************************************************)
EXTENDS Integers, Sequences, FiniteSets, TLC

\* ---------------------------------------------------------------- bounds
MaxTickets == 2      \* document ids ever assigned
MaxClock == 2        \* server clock values (milliseconds) 1..MaxClock
MaxInFlight == 1     \* queue length below which a status update or delete is issued
MaxCreates == 2      \* queue length below which a create is issued
MaxListed == 3       \* documents in the collection when the statistics are studied

\* ------------------------------------------------------------- constants
NULL == "null"     \* no session / unfiltered query
NoId == 0          \* no ticket id (null)
Unresolved == 0 - 1 \* createdAt of a write whose serverTimestamp() is pending
Users == {"u1", "u2"}
Views == {"My Tickets", "All Tickets", "Stats"}
Statuses == {"Open", "In Progress", "Resolved"}
Variants == {"vercel", "canvas", "netlify"}
Configs == {"ok", "missing", "invalid"}
Ids == 1..MaxTickets

\* Values typed into the form fields: strings as sequences of characters.
FormValues == {<< >>, <<" ">>, <<" ", "a", " ">>}

\* ------------------------------------------------------------- variables
VARIABLES
    variant,           \* which App this instance runs
    config,            \* provider configuration found at start-up
    token,             \* canvas: an initial auth token was supplied
    signIns,           \* sign-in attempts started and not yet completed
    docs,              \* remote collection: id -> document, for the ids that exist
    nextId,            \* next unused document id
    clock,             \* server clock
    inflight,          \* queue of this client's unacknowledged writes
    user,              \* useState(null): session uid or NULL
    loading,           \* useState(true)
    view,              \* useState('My Tickets')
    title,             \* useState('')
    description,       \* useState('')
    tickets,           \* useState([]): the displayed list
    subs,              \* live onSnapshot subscriptions of this instance
    showConfirmModal,  \* canvas: useState(false)
    ticketToDeleteId,  \* canvas: useState(null)
    confirmDialog,     \* vercel/netlify: id for which window.confirm is open
    event              \* outcome of the last step when it left no other trace:
                       \* a rejected submit, a cancel, a logged failure; else "none"

vars == <<variant, config, token, signIns, docs, nextId, clock, inflight, user, loading, view, title,
          description, tickets, subs, showConfirmModal, ticketToDeleteId,
          confirmDialog, event>>

remoteVars == <<docs, nextId, clock>>
formVars == <<title, description>>
deleteVars == <<showConfirmModal, ticketToDeleteId, confirmDialog>>

\* --------------------------------------------------------- pure helpers
\* String.prototype.trim on a sequence of characters.
RECURSIVE TrimStart(_)
TrimStart(s) ==
    IF s = << >> THEN << >>
    ELSE IF Head(s) = " " THEN TrimStart(Tail(s)) ELSE s

RECURSIVE TrimEnd(_)
TrimEnd(s) ==
    IF s = << >> THEN << >>
    ELSE IF s[Len(s)] = " " THEN TrimEnd(SubSeq(s, 1, Len(s) - 1)) ELSE s

trim(s) == TrimEnd(TrimStart(s))

\* Variant features.
ClientSort == variant \in {"vercel", "canvas"}
UsesModal == variant = "canvas"

\* A main render that tests loading only.
TicketUIUnguarded == ~loading

\* The main render is reached: the configuration and initialization guards
\* and the loading guard are passed.
TicketUI == config = "ok" /\ ~loading

\* window.confirm is open: the event loop of this instance is blocked.
Blocked == confirmDialog # NoId

\* a.createdAt?.toMillis() || 0 : a pending server timestamp reads as null.
SortKey(t) == IF t.createdAt = Unresolved THEN 0 ELSE t.createdAt

\* The comparator reversed: (a, b) => timeA - timeB.
RECURSIVE InsertAsc(_, _)
InsertAsc(t, s) ==
    IF s = << >> THEN <<t>>
    ELSE IF SortKey(Head(s)) <= SortKey(t)
         THEN <<Head(s)>> \o InsertAsc(t, Tail(s))
         ELSE <<t>> \o s

\* Array.prototype.sort with comparator (a, b) => timeB - timeA: a stable
\* sort, descending by SortKey.
RECURSIVE InsertDesc(_, _)
InsertDesc(t, s) ==
    IF s = << >> THEN <<t>>
    ELSE IF SortKey(Head(s)) >= SortKey(t)
         THEN <<Head(s)>> \o InsertDesc(t, Tail(s))
         ELSE <<t>> \o s

RECURSIVE SortByCreatedAtDesc(_)
SortByCreatedAtDesc(s) ==
    IF s = << >> THEN << >>
    ELSE InsertDesc(s[Len(s)], SortByCreatedAtDesc(SubSeq(s, 1, Len(s) - 1)))

\* ------------------------------------------------------ remote collection
Doc(t, d, s, u, c) ==
    [title |-> t, description |-> d, status |-> s, userId |-> u, createdAt |-> c]

\* A queued write of this client.
Write(k, i, t, d, s, u) ==
    [kind |-> k, id |-> i, title |-> t, description |-> d, status |-> s, userId |-> u]

\* The effect of one queued write on the client's view of the collection
\* (latency compensation): an added document has no resolved createdAt yet.
ApplyLocal(d, w) ==
    IF w.kind = "create"
    THEN [i \in DOMAIN d \cup {w.id} |->
            IF i = w.id
            THEN Doc(w.title, w.description, w.status, w.userId, Unresolved)
            ELSE d[i]]
    ELSE IF w.kind = "update"
    THEN [i \in DOMAIN d |-> IF i = w.id THEN [d[i] EXCEPT !.status = w.status] ELSE d[i]]
    ELSE [i \in DOMAIN d \ {w.id} |-> d[i]]

RECURSIVE ApplyAll(_, _)
ApplyAll(d, q) == IF q = << >> THEN d ELSE ApplyAll(ApplyLocal(d, Head(q)), Tail(q))

\* What this client's listeners see: the server's documents overlaid with the
\* client's own unacknowledged writes.
LocalView == ApplyAll(docs, inflight)

\* ---------------------------------------------------------- subscription
\* A query that ignores the active view.
QueryOwnerOnly(v, u) == [owner |-> u]

\* query(collection, where('userId', '==', uid)) or query(collection).
Query(v, u) == [owner |-> IF v = "My Tickets" THEN u ELSE NULL]

Matches(q, d) == q.owner = NULL \/ d.userId = q.owner

\* snapshot.docs.map(doc => ({ id: doc.id, ...doc.data() }))
Ticket(i, d) ==
    [id |-> i, title |-> d.title, description |-> d.description,
     status |-> d.status, userId |-> d.userId, createdAt |-> d.createdAt]

ResultSet(q) == {Ticket(i, LocalView[i]) : i \in {j \in DOMAIN LocalView : Matches(q, LocalView[j])}}

Perms(S) ==
    {p \in [1..Cardinality(S) -> S] : \A i, j \in 1..Cardinality(S) : i # j => p[i] # p[j]}

\* orderBy('createdAt', 'desc'): a pending server timestamp orders after every
\* resolved one, so it comes first in descending order.
OrderKey(t) == IF t.createdAt = Unresolved THEN MaxClock + 1 ELSE t.createdAt

\* The orders in which a snapshot may list its documents.  Without orderBy the
\* order is that of the (random) document ids; with it, createdAt descending.
SnapshotDocs(q) ==
    IF ClientSort
    THEN Perms(ResultSet(q))
    ELSE {p \in Perms(ResultSet(q)) :
            \A i, j \in 1..Len(p) : i < j => OrderKey(p[i]) >= OrderKey(p[j])}

\* An effect that returns no cleanup: the previous subscription stays live.
NoCleanup(old) == old

\* useEffect(..., [user, view]): the cleanup of the previous run releases its
\* subscription, then the body subscribes unless there is no session.
Cleanup(old) == {}

\* A body without the guard on the session.
SubscribeWithoutSession(u, v) == {Query(v, u)}

\* if (!user) return; ... onSnapshot(q, ...)
Subscribe(u, v) == IF u = NULL THEN {} ELSE {Query(v, u)}

DataListenerEffect(old, u, v) == Cleanup(old) \cup Subscribe(u, v)

\* A ticket is rendered as a TicketCard when the list view is shown.
Listed(i) == \E k \in 1..Len(tickets) : tickets[k].id = i

CardShown(t) ==
    /\ TicketUI
    /\ view # "Stats"
    /\ \E k \in 1..Len(tickets) : tickets[k] = t

\* const isOwner = user?.uid === ticket.userId
isOwner(t) == user # NULL /\ user = t.userId

\* ------------------------------------------------------------ statistics
\* 0 / 0 in floating point; (NaN).toFixed(1) is "NaN".
NaN == 0 - 1

\* Only the first match is counted.
CountFirst(l, s) == IF \E k \in 1..Len(l) : l[k].status = s THEN 1 ELSE 0

\* tickets.filter(t => t.status === s).length
Count(l, s) == Len(SelectSeq(l, LAMBDA t : t.status = s))

\* Rounding to a whole percent.
toFixed0(count, total) ==
    IF total = 0 THEN NaN ELSE 10 * ((200 * count + total) \div (2 * total))

\* ((count / total) * 100).toFixed(1), as a number of tenths of a percent:
\* the nearest tenth, the larger one on a tie.
toFixed1(count, total) ==
    IF total = 0 THEN NaN ELSE (2000 * count + total) \div (2 * total)

\* The percentage without the guard.
PercentUnguarded(count, total) == toFixed1(count, total)

\* total > 0 ? ((count / total) * 100).toFixed(1) : 0
Percent(count, total) == IF total > 0 THEN toFixed1(count, total) ELSE 0

\* useMemo(() => {...}, [tickets])
stats ==
    LET total == Len(tickets)
        open == Count(tickets, "Open")
        inProgress == Count(tickets, "In Progress")
        resolved == Count(tickets, "Resolved")
    IN [total |-> total, open |-> open, inProgress |-> inProgress, resolved |-> resolved,
        openPercent |-> Percent(open, total),
        inProgressPercent |-> Percent(inProgress, total),
        resolvedPercent |-> Percent(resolved, total)]

\* The statistics dashboard is on screen.
StatsShown == TicketUI /\ view = "Stats"

\* --------------------------------------------------------------- start-up
\* canvas initializes the provider in its mount effect: without a
\* configuration, or when initialization throws, the effect ends with
\* setLoading(false) and registers no auth listener.  vercel and netlify
\* initialize at module scope and return from App before any hook.
InitFailedInEffect == variant = "canvas" /\ config # "ok"

\* What App renders.
Screen ==
    IF variant = "canvas"
    THEN IF loading THEN "loading"
         ELSE IF config # "ok" THEN "initError" ELSE "tickets"
    ELSE IF config = "missing" THEN "configError"
    ELSE IF config = "invalid" THEN (IF variant = "vercel" THEN "initError" ELSE "configError")
    ELSE IF loading THEN "loading" ELSE "tickets"

\* An authenticateUser that never uses the token.
SignInKindAnonymous == "anonymous"

\* authenticateUser: signInWithCustomToken when canvas was given an initial
\* token, signInAnonymously otherwise.
SignInKind == IF variant = "canvas" /\ token THEN "token" ELSE "anonymous"

\* ------------------------------------------------------------------ Init
\* The state after App was mounted, under every configuration.
InitStartup ==
    /\ variant \in Variants
    /\ config \in Configs
    /\ token \in (IF variant = "canvas" THEN BOOLEAN ELSE {FALSE})
    /\ signIns = << >>
    /\ docs = << >>
    /\ nextId = 1
    /\ clock = 1
    /\ inflight = << >>
    /\ user = NULL
    /\ loading = ~InitFailedInEffect
    /\ view = "My Tickets"
    /\ title = << >>
    /\ description = << >>
    /\ tickets = << >>
    /\ subs = {}
    /\ showConfirmModal = FALSE
    /\ ticketToDeleteId = NoId
    /\ confirmDialog = NoId
    /\ event = "none"

\* The application was given a configuration that initializes, and no token.
Init == InitStartup /\ config = "ok" /\ token = FALSE

\* --------------------------------------------------------- identity, view
\* A callback that ends loading only once a session exists.
AuthStateChangedLoadingUntilSession(u) ==
    /\ config = "ok"
    /\ ~Blocked
    /\ u # user \/ (loading /\ signIns = << >>)
    /\ u = NULL \/ user = NULL
    /\ IF u = NULL
       THEN signIns' = Append(signIns, SignInKind)
       ELSE /\ signIns # << >> \/ loading
            /\ signIns' = << >>
    /\ user' = u
    /\ loading' = (loading /\ u = NULL)
    /\ subs' = DataListenerEffect(subs, u, view)
    /\ event' = "none"
    /\ UNCHANGED <<variant, config, token, remoteVars, inflight, view, formVars, tickets, deleteVars>>

\* onAuthStateChanged callback: setUser(currentUser); if there is no session
\* authenticateUser() is started; setLoading(false); the data listener effect
\* re-runs because user changed.  The provider reports none only after a
\* session or as its first notification, and a session only as the outcome
\* of a sign-in attempt or, from persistence, as its first notification.
AuthStateChanged(u) ==
    /\ config = "ok"
    /\ ~Blocked
    /\ u # user \/ loading
    /\ u = NULL \/ user = NULL
    /\ IF u = NULL
       THEN signIns' = Append(signIns, SignInKind)
       ELSE /\ signIns # << >> \/ loading
            /\ signIns' = << >>
    /\ user' = u
    /\ loading' = FALSE
    /\ subs' = DataListenerEffect(subs, u, view)
    /\ event' = "none"
    /\ UNCHANGED <<variant, config, token, remoteVars, inflight, view, formVars, tickets, deleteVars>>

\* authenticateUser after the await rejected: console.error only.
signInRejected ==
    /\ ~Blocked
    /\ signIns # << >>
    /\ signIns' = Tail(signIns)
    /\ event' = "none"
    /\ UNCHANGED <<variant, config, token, remoteVars, inflight, user, loading, view, formVars,
                   tickets, subs, deleteVars>>

\* A view switch that also empties the list.
SetViewClearsList(v) ==
    /\ TicketUI /\ ~Blocked
    /\ v # view
    /\ view' = v
    /\ tickets' = << >>
    /\ subs' = DataListenerEffect(subs, user, v)
    /\ event' = "none"
    /\ UNCHANGED <<variant, config, token, signIns, remoteVars, inflight, user, loading, formVars, deleteVars>>

\* View switcher buttons: setView(viewName); the effect re-runs.
SetView(v) ==
    /\ TicketUI /\ ~Blocked
    /\ v # view
    /\ view' = v
    /\ subs' = DataListenerEffect(subs, user, v)
    /\ event' = "none"
    /\ UNCHANGED <<variant, config, token, signIns, remoteVars, inflight, user, loading, formVars, tickets, deleteVars>>

\* onSnapshot success callback of a live subscription.
OnSnapshot(q) ==
    /\ ~Blocked
    /\ q \in subs
    /\ \E fetchedTickets \in SnapshotDocs(q) :
          tickets' = IF ClientSort THEN SortByCreatedAtDesc(fetchedTickets)
                     ELSE fetchedTickets
    /\ event' = "none"
    /\ UNCHANGED <<variant, config, token, signIns, remoteVars, inflight, user, loading, view, formVars, subs, deleteVars>>

\* A session of u1 is signed in, its My Tickets subscription is live and has
\* not delivered yet; other clients have filled the collection with up to
\* MaxListed tickets of u1 in any statuses.
InitStats ==
    /\ variant \in Variants
    /\ config = "ok"
    /\ token = FALSE
    /\ signIns = << >>
    /\ \E n \in 0..MaxListed : \E sl \in [1..n -> Statuses] :
          /\ docs = [i \in 1..n |-> Doc(<<"b">>, <<"b">>, sl[i], "u1", 1)]
          /\ nextId = n + 1
    /\ clock = 1
    /\ inflight = << >>
    /\ user = "u1"
    /\ loading = FALSE
    /\ view = "My Tickets"
    /\ title = << >>
    /\ description = << >>
    /\ tickets = << >>
    /\ subs = Subscribe("u1", "My Tickets")
    /\ showConfirmModal = FALSE
    /\ ticketToDeleteId = NoId
    /\ confirmDialog = NoId
    /\ event = "none"

\* onSnapshot error callback: console.error only.  The provider ends a
\* listener that reported an error; it delivers nothing more.
OnSnapshotError(q) ==
    /\ ~Blocked
    /\ q \in subs
    /\ subs' = subs \ {q}
    /\ event' = "subscribeFailed"
    /\ UNCHANGED <<variant, config, token, signIns, remoteVars, inflight, user, loading, view, formVars, tickets, deleteVars>>

\* ------------------------------------------------------------------ form
\* onChange={(e) => setTitle(e.target.value)}
SetTitle(s) ==
    /\ TicketUI /\ ~Blocked
    /\ s # title
    /\ title' = s
    /\ event' = "none"
    /\ UNCHANGED <<variant, config, token, signIns, remoteVars, inflight, user, loading, view, description, tickets, subs, deleteVars>>

SetDescription(s) ==
    /\ TicketUI /\ ~Blocked
    /\ s # description
    /\ description' = s
    /\ event' = "none"
    /\ UNCHANGED <<variant, config, token, signIns, remoteVars, inflight, user, loading, view, title, tickets, subs, deleteVars>>

\* Validation that forgets to trim.
CreateRejectedNoTrim == title = << >> \/ description = << >> \/ user = NULL

\* if (!title.trim() || !description.trim() || !user) return;
CreateRejected == trim(title) = << >> \/ trim(description) = << >> \/ user = NULL

\* A document built from the raw form values.
NewTicketNoTrim(i) == Write("create", i, title, description, "Open", user)

\* The document handed to addDoc.
NewTicket(i) == Write("create", i, trim(title), trim(description), "Open", user)

\* A submit that is ignored while an earlier create is pending.
createTicketGuarded ==
    /\ TicketUI /\ ~Blocked
    /\ IF CreateRejected \/ \E k \in 1..Len(inflight) : inflight[k].kind = "create"
       THEN /\ event' = "createRejected"
            /\ UNCHANGED <<inflight, nextId>>
       ELSE /\ Len(inflight) < MaxCreates
            /\ nextId <= MaxTickets
            /\ inflight' = Append(inflight, NewTicket(nextId))
            /\ nextId' = nextId + 1
            /\ event' = "none"
    /\ UNCHANGED <<variant, config, token, signIns, docs, clock, user, loading, view, formVars, tickets, subs, deleteVars>>

\* createTicket up to the await: validation, then addDoc is issued.
createTicket ==
    /\ TicketUI /\ ~Blocked
    /\ IF CreateRejected
       THEN /\ event' = "createRejected"
            /\ UNCHANGED <<inflight, nextId>>
       ELSE /\ Len(inflight) < MaxCreates
            /\ nextId <= MaxTickets
            /\ inflight' = Append(inflight, NewTicket(nextId))
            /\ nextId' = nextId + 1
            /\ event' = "none"
    /\ UNCHANGED <<variant, config, token, signIns, docs, clock, user, loading, view, formVars, tickets, subs, deleteVars>>

\* A completion that also merges the new document into the list.
addDocResolvedOptimistic ==
    /\ ~Blocked
    /\ inflight # << >> /\ Head(inflight).kind = "create"
    /\ LET w == Head(inflight)
           d == Doc(w.title, w.description, w.status, w.userId, clock) IN
         /\ docs' = [i \in DOMAIN docs \cup {w.id} |-> IF i = w.id THEN d ELSE docs[i]]
         /\ tickets' = <<Ticket(w.id, d)>> \o tickets
    /\ inflight' = Tail(inflight)
    /\ title' = << >>
    /\ description' = << >>
    /\ event' = "none"
    /\ UNCHANGED <<variant, config, token, signIns, nextId, clock, user, loading, view, subs, deleteVars>>

\* A completion that resets the title only.
addDocResolvedKeepsDescription ==
    /\ ~Blocked
    /\ inflight # << >> /\ Head(inflight).kind = "create"
    /\ LET w == Head(inflight) IN
         docs' = [i \in DOMAIN docs \cup {w.id} |->
                    IF i = w.id
                    THEN Doc(w.title, w.description, w.status, w.userId, clock)
                    ELSE docs[i]]
    /\ inflight' = Tail(inflight)
    /\ title' = << >>
    /\ event' = "none"
    /\ UNCHANGED <<variant, config, token, signIns, nextId, clock, user, loading, view, description, tickets, subs, deleteVars>>

\* createTicket after the await resolved: the server stored the document with
\* its own timestamp; setTitle(''); setDescription('').
addDocResolved ==
    /\ ~Blocked
    /\ inflight # << >> /\ Head(inflight).kind = "create"
    /\ LET w == Head(inflight) IN
         docs' = [i \in DOMAIN docs \cup {w.id} |->
                    IF i = w.id
                    THEN Doc(w.title, w.description, w.status, w.userId, clock)
                    ELSE docs[i]]
    /\ inflight' = Tail(inflight)
    /\ title' = << >>
    /\ description' = << >>
    /\ event' = "none"
    /\ UNCHANGED <<variant, config, token, signIns, nextId, clock, user, loading, view, tickets, subs, deleteVars>>

\* A failure path that clears the form as the success path does.
addDocRejectedResetsForm ==
    /\ ~Blocked
    /\ inflight # << >> /\ Head(inflight).kind = "create"
    /\ inflight' = Tail(inflight)
    /\ title' = << >>
    /\ description' = << >>
    /\ event' = "createFailed"
    /\ UNCHANGED <<variant, config, token, signIns, remoteVars, user, loading, view, tickets, subs, deleteVars>>

\* createTicket after the await rejected: console.error only.
addDocRejected ==
    /\ ~Blocked
    /\ inflight # << >> /\ Head(inflight).kind = "create"
    /\ inflight' = Tail(inflight)
    /\ event' = "createFailed"
    /\ UNCHANGED <<variant, config, token, signIns, remoteVars, user, loading, view, formVars, tickets, subs, deleteVars>>

\* ---------------------------------------------------------------- status
\* A status dropdown that is wired for the owner only.
updateTicketStatusByOwner(t, s) ==
    /\ ~Blocked
    /\ CardShown(t)
    /\ isOwner(t)
    /\ s # t.status
    /\ Len(inflight) < MaxInFlight
    /\ inflight' = Append(inflight, Write("update", t.id, << >>, << >>, s, NULL))
    /\ event' = "none"
    /\ UNCHANGED <<variant, config, token, signIns, remoteVars, user, loading, view, formVars, tickets, subs, deleteVars>>

\* StatusDropdown onChange -> handleStatusChange -> updateTicketStatus(id,
\* { status }) up to the await.
updateTicketStatus(t, s) ==
    /\ ~Blocked
    /\ CardShown(t)
    /\ s # t.status
    /\ Len(inflight) < MaxInFlight
    /\ inflight' = Append(inflight, Write("update", t.id, << >>, << >>, s, NULL))
    /\ event' = "none"
    /\ UNCHANGED <<variant, config, token, signIns, remoteVars, user, loading, view, formVars, tickets, subs, deleteVars>>

\* A completion that replaces the whole document by the request's data.
updateDocResolvedOverwrite ==
    /\ ~Blocked
    /\ inflight # << >> /\ Head(inflight).kind = "update"
    /\ Head(inflight).id \in DOMAIN docs
    /\ LET w == Head(inflight) IN
         docs' = [docs EXCEPT ![w.id] = Doc(w.title, w.description, w.status, w.userId, clock)]
    /\ inflight' = Tail(inflight)
    /\ event' = "none"
    /\ UNCHANGED <<variant, config, token, signIns, nextId, clock, user, loading, view, formVars, tickets, subs, deleteVars>>

\* A completion that writes the document whether or not it exists (a set
\* with merge).
updateDocResolvedUpsert ==
    /\ ~Blocked
    /\ inflight # << >> /\ Head(inflight).kind = "update"
    /\ LET w == Head(inflight) IN
         docs' = [i \in DOMAIN docs \cup {w.id} |->
                    IF i # w.id THEN docs[i]
                    ELSE IF i \in DOMAIN docs THEN [docs[i] EXCEPT !.status = w.status]
                    ELSE Doc(<< >>, << >>, w.status, NULL, clock)]
    /\ inflight' = Tail(inflight)
    /\ event' = "none"
    /\ UNCHANGED <<variant, config, token, signIns, nextId, clock, user, loading, view, formVars, tickets, subs, deleteVars>>

\* updateDoc resolves only when the document exists.
updateDocResolved ==
    /\ ~Blocked
    /\ inflight # << >> /\ Head(inflight).kind = "update"
    /\ Head(inflight).id \in DOMAIN docs
    /\ docs' = [docs EXCEPT ![Head(inflight).id].status = Head(inflight).status]
    /\ inflight' = Tail(inflight)
    /\ event' = "none"
    /\ UNCHANGED <<variant, config, token, signIns, nextId, clock, user, loading, view, formVars, tickets, subs, deleteVars>>

\* A failure path that queues the failed request again.
updateDocRejectedRetries ==
    /\ ~Blocked
    /\ inflight # << >> /\ Head(inflight).kind = "update"
    /\ inflight' = Append(Tail(inflight), Head(inflight))
    /\ event' = "updateFailed"
    /\ UNCHANGED <<variant, config, token, signIns, remoteVars, user, loading, view, formVars, tickets, subs, deleteVars>>

\* updateTicketStatus after the await rejected: console.error only.
updateDocRejected ==
    /\ ~Blocked
    /\ inflight # << >> /\ Head(inflight).kind = "update"
    /\ inflight' = Tail(inflight)
    /\ event' = "updateFailed"
    /\ UNCHANGED <<variant, config, token, signIns, remoteVars, user, loading, view, formVars, tickets, subs, deleteVars>>

\* -------------------------------------------------------------- deletion
\* A trash button wired straight to deleteDoc, with no confirmation.
handleDeleteWithoutConfirmation(t) ==
    /\ ~Blocked
    /\ CardShown(t)
    /\ isOwner(t)
    /\ Len(inflight) < MaxInFlight
    /\ inflight' = Append(inflight, Write("delete", t.id, << >>, << >>, NULL, NULL))
    /\ event' = "none"
    /\ UNCHANGED <<variant, config, token, signIns, remoteVars, user, loading, view, formVars, tickets, subs, deleteVars>>

\* The trash button of a TicketCard, rendered only when isOwner.
\* canvas: handleDeleteConfirmation(ticketId) opens the modal;
\* vercel/netlify: deleteTicket(id) opens window.confirm.
handleDeleteConfirmation(t) ==
    /\ ~Blocked
    /\ CardShown(t)
    /\ isOwner(t)
    /\ IF UsesModal
       THEN /\ ticketToDeleteId' = t.id
            /\ showConfirmModal' = TRUE
            /\ UNCHANGED confirmDialog
       ELSE /\ confirmDialog' = t.id
            /\ UNCHANGED <<showConfirmModal, ticketToDeleteId>>
    /\ event' = "none"
    /\ UNCHANGED <<variant, config, token, signIns, remoteVars, inflight, user, loading, view, formVars, tickets, subs>>

\* The id a confirm acts on.
PendingDeleteId == IF UsesModal THEN ticketToDeleteId ELSE confirmDialog

\* The confirmation dialog is on screen.
ConfirmShown == IF UsesModal THEN TicketUI /\ showConfirmModal ELSE confirmDialog # NoId

\* A confirm that deletes the first listed ticket.
deleteTicketFirstListed ==
    /\ ConfirmShown
    /\ IF PendingDeleteId = NoId \/ tickets = << >>
       THEN /\ event' = "deleteIgnored"
            /\ UNCHANGED inflight
       ELSE /\ Len(inflight) < MaxInFlight
            /\ inflight' = Append(inflight, Write("delete", tickets[1].id, << >>, << >>, NULL, NULL))
            /\ event' = "none"
    /\ confirmDialog' = NoId
    /\ UNCHANGED <<variant, config, token, signIns, remoteVars, user, loading, view, formVars, tickets, subs,
                   showConfirmModal, ticketToDeleteId>>

\* Confirm: canvas deleteTicket() from the modal's onConfirm (guard
\* !ticketToDeleteId), vercel/netlify window.confirm returned true; deleteDoc
\* is issued.
deleteTicket ==
    /\ ConfirmShown
    /\ IF PendingDeleteId = NoId
       THEN /\ event' = "deleteIgnored"
            /\ UNCHANGED inflight
       ELSE /\ Len(inflight) < MaxInFlight
            /\ inflight' = Append(inflight, Write("delete", PendingDeleteId, << >>, << >>, NULL, NULL))
            /\ event' = "none"
    /\ confirmDialog' = NoId
    /\ UNCHANGED <<variant, config, token, signIns, remoteVars, user, loading, view, formVars, tickets, subs,
                   showConfirmModal, ticketToDeleteId>>

\* Cancel: canvas onCancel={() => setShowConfirmModal(false)}, vercel/netlify
\* window.confirm returned false.
onCancel ==
    /\ ConfirmShown
    /\ IF UsesModal
       THEN /\ showConfirmModal' = FALSE
            /\ UNCHANGED <<ticketToDeleteId, confirmDialog>>
       ELSE /\ confirmDialog' = NoId
            /\ UNCHANGED <<showConfirmModal, ticketToDeleteId>>
    /\ event' = "deleteCancelled"
    /\ UNCHANGED <<variant, config, token, signIns, remoteVars, inflight, user, loading, view, formVars, tickets, subs>>

\* canvas: finally { setShowConfirmModal(false); setTicketToDeleteId(null) }
Finally ==
    IF UsesModal
    THEN /\ showConfirmModal' = FALSE
         /\ ticketToDeleteId' = NoId
         /\ UNCHANGED confirmDialog
    ELSE UNCHANGED deleteVars

deleteDocResolved ==
    /\ ~Blocked
    /\ inflight # << >> /\ Head(inflight).kind = "delete"
    /\ docs' = [i \in DOMAIN docs \ {Head(inflight).id} |-> docs[i]]
    /\ inflight' = Tail(inflight)
    /\ Finally
    /\ event' = "none"
    /\ UNCHANGED <<variant, config, token, signIns, nextId, clock, user, loading, view, formVars, tickets, subs>>

deleteDocRejected ==
    /\ ~Blocked
    /\ inflight # << >> /\ Head(inflight).kind = "delete"
    /\ inflight' = Tail(inflight)
    /\ Finally
    /\ event' = "deleteFailed"
    /\ UNCHANGED <<variant, config, token, signIns, remoteVars, user, loading, view, formVars, tickets, subs>>

\* ---------------------------------------------------------- environment
\* Another client adds, updates or deletes a document of the collection.
OtherCreate(u) ==
    /\ nextId <= MaxTickets
    /\ docs' = [i \in DOMAIN docs \cup {nextId} |->
                  IF i = nextId THEN Doc(<<"b">>, <<"b">>, "Open", u, clock) ELSE docs[i]]
    /\ nextId' = nextId + 1
    /\ event' = "none"
    /\ UNCHANGED <<variant, config, token, signIns, clock, inflight, user, loading, view, formVars, tickets, subs, deleteVars>>

OtherUpdate(i, s) ==
    /\ i \in DOMAIN docs
    /\ s # docs[i].status
    /\ docs' = [docs EXCEPT ![i].status = s]
    /\ event' = "none"
    /\ UNCHANGED <<variant, config, token, signIns, nextId, clock, inflight, user, loading, view, formVars, tickets, subs, deleteVars>>

OtherDelete(i) ==
    /\ i \in DOMAIN docs
    /\ docs' = [j \in DOMAIN docs \ {i} |-> docs[j]]
    /\ event' = "none"
    /\ UNCHANGED <<variant, config, token, signIns, nextId, clock, inflight, user, loading, view, formVars, tickets, subs, deleteVars>>

\* The server clock advances.
Tick ==
    /\ clock < MaxClock
    /\ clock' = clock + 1
    /\ event' = "none"
    /\ UNCHANGED <<variant, config, token, signIns, docs, nextId, inflight, user, loading, view, formVars, tickets, subs, deleteVars>>

\* ------------------------------------------------------------------ Next
Identity == \E u \in Users \cup {NULL} : AuthStateChanged(u)

SignInFailure == signInRejected

Navigation == \E v \in Views : SetView(v)

Listener == \E q \in subs : OnSnapshot(q)

ListenerFailure == \E q \in subs : OnSnapshotError(q)

\* The user types any of the form values.
Typing ==
    \/ \E s \in FormValues : SetTitle(s)
    \/ \E s \in FormValues : SetDescription(s)

\* The user types only a value that passes validation.
ValidInput == <<" ", "a", " ">>

TypingValid ==
    \/ SetTitle(ValidInput)
    \/ SetDescription(ValidInput)

Creation ==
    \/ createTicket
    \/ addDocResolved
    \/ addDocRejected

StatusChange ==
    \/ \E k \in 1..Len(tickets), s \in Statuses : updateTicketStatus(tickets[k], s)
    \/ updateDocResolved
    \/ updateDocRejected

Deletion ==
    \/ \E k \in 1..Len(tickets) : handleDeleteConfirmation(tickets[k])
    \/ deleteTicket
    \/ onCancel
    \/ deleteDocResolved
    \/ deleteDocRejected

OtherClientsCreate == \E u \in Users : OtherCreate(u)

OtherClientsUpdate == \E i \in Ids, s \in Statuses : OtherUpdate(i, s)

OtherClientsDelete == \E i \in Ids : OtherDelete(i)

\* Every operation of the application and of its environment.
Next ==
    \/ Identity
    \/ SignInFailure
    \/ Navigation
    \/ Listener
    \/ ListenerFailure
    \/ Typing
    \/ Creation
    \/ StatusChange
    \/ Deletion
    \/ OtherClientsCreate
    \/ OtherClientsUpdate
    \/ OtherClientsDelete
    \/ Tick

Spec == Init /\ [][Next]_vars

\* The specifications below are the application under a restricted use: the
\* same initial states and the same operations, fewer of them exercised.

\* The creation form: every form value is typed; no status change, no deletion.
NextForm ==
    \/ Identity
    \/ Navigation
    \/ Listener
    \/ Typing
    \/ Creation
    \/ Tick

SpecForm == Init /\ [][NextForm]_vars

\* The listing: tickets are created here and by other clients at different
\* times and deleted by other clients; only valid form values are typed.
NextListing ==
    \/ Identity
    \/ Navigation
    \/ Listener
    \/ TypingValid
    \/ Creation
    \/ OtherClientsCreate
    \/ OtherClientsDelete
    \/ Tick

SpecListing == Init /\ [][NextListing]_vars

\* The deletion flow over tickets of this and of other sessions.
NextDeletion ==
    \/ Identity
    \/ Navigation
    \/ Listener
    \/ TypingValid
    \/ Creation
    \/ Deletion
    \/ OtherClientsCreate
    \/ OtherClientsDelete

SpecDeletion == Init /\ [][NextDeletion]_vars

\* Every write of this instance (create, status update, delete) with its
\* completion and its failure, under My Tickets.
NextWrites ==
    \/ Identity
    \/ Listener
    \/ TypingValid
    \/ Creation
    \/ StatusChange
    \/ Deletion

SpecWrites == Init /\ [][NextWrites]_vars

\* Status changes by this instance on tickets that other clients created for
\* this and for other sessions, under every view.
NextStatus ==
    \/ Identity
    \/ Navigation
    \/ Listener
    \/ StatusChange
    \/ OtherClientsCreate

SpecStatus == Init /\ [][NextStatus]_vars

\* The statistics over a collection of up to MaxListed tickets: the views
\* are switched, snapshots arrive, statuses are changed.
NextStats ==
    \/ Navigation
    \/ Listener
    \/ StatusChange

SpecStats == InitStats /\ [][NextStats]_vars

\* The statistics dashboard is opened from My Tickets and left for it again;
\* All Tickets is never opened.
NavigationMyStats == SetView("Stats") \/ SetView("My Tickets")

NextMyStats ==
    \/ Identity
    \/ NavigationMyStats
    \/ Listener
    \/ OtherClientsCreate
    \/ OtherClientsDelete

SpecMyStats == Init /\ [][NextMyStats]_vars

\* The provider reports the session of one user, or none.
IdentityOneUser == AuthStateChanged("u1") \/ AuthStateChanged(NULL)

\* Every call of this instance to the collection, each with its failure:
\* the subscription, create, status update and delete, for one user.
NextFailures ==
    \/ IdentityOneUser
    \/ Listener
    \/ ListenerFailure
    \/ TypingValid
    \/ Creation
    \/ StatusChange
    \/ Deletion

SpecFailures == Init /\ [][NextFailures]_vars

\* Start-up under every configuration: the provider's notifications, sign-in
\* attempts and their failure, then the use of the form and of the views.
NextStartup ==
    \/ Identity
    \/ SignInFailure
    \/ Navigation
    \/ Listener
    \/ Typing
    \/ Creation
    \/ OtherClientsCreate

SpecStartup == InitStartup /\ [][NextStartup]_vars

\* My Tickets stays the active view: every ticket this instance creates is
\* created under it.  Other clients' documents carry the title <<"b">>.
NextMyTickets ==
    \/ Identity
    \/ Listener
    \/ TypingValid
    \/ Creation
    \/ OtherClientsCreate
    \/ OtherClientsDelete
    \/ Tick

SpecMyTickets == Init /\ [][NextMyTickets]_vars

\* The form is filled with either of two valid values and submitted, also
\* while earlier creates are pending.
OtherInput == <<"c">>

TypingTwoValues ==
    \/ \E s \in {ValidInput, OtherInput} : SetTitle(s)
    \/ \E s \in {ValidInput, OtherInput} : SetDescription(s)

NextSubmits ==
    \/ Identity
    \/ Listener
    \/ TypingTwoValues
    \/ Creation

SpecSubmits == Init /\ [][NextSubmits]_vars

\* Status changes by this instance on tickets that other clients create and
\* delete: the list may show a ticket that is gone.
NextStaleUpdate ==
    \/ Identity
    \/ Listener
    \/ StatusChange
    \/ OtherClientsCreate
    \/ OtherClientsDelete

SpecStaleUpdate == Init /\ [][NextStaleUpdate]_vars

\* ================================================================ claims
\* A string that is empty or consists of spaces only.
Blank(s) == \A k \in 1..Len(s) : s[k] = " "

\* r is s without its leading and trailing spaces.
IsTrimOf(r, s) ==
    \E a, b \in 0..Len(s) :
        /\ a + b <= Len(s)
        /\ r = SubSeq(s, a + 1, Len(s) - b)
        /\ \A k \in 1..a : s[k] = " "
        /\ \A k \in (Len(s) - b + 1)..Len(s) : s[k] = " "
        /\ r # << >> => r[1] # " " /\ r[Len(r)] # " "

\* The step appends a write of kind k to the client's queue.
Issued(k) ==
    /\ Len(inflight') = Len(inflight) + 1
    /\ inflight'[Len(inflight')].kind = k

FormInvalid == Blank(title) \/ Blank(description) \/ user = NULL

\* C1: a submit with a title or a description that is blank after trimming,
\* or without a session, issues no create request, adds no document and leaves
\* the form fields and the ticket list as they were; a create request is
\* issued only from a valid form with a session.
C1_RejectedSubmitIsNoOp ==
    [][ /\ (createTicket /\ FormInvalid) =>
              UNCHANGED <<docs, nextId, inflight, title, description, tickets>>
        /\ Issued("create") => ~FormInvalid ]_vars

\* A submit was rejected for a whitespace-only description alone.
C1_Witness ==
    /\ event = "createRejected"
    /\ user # NULL
    /\ ~Blank(title)
    /\ Blank(description) /\ description # << >>

\* C2: an accepted submit issues one create request carrying the trimmed form
\* values, status Open and the submitting session's id, and the document the
\* server adds for it is the only one added, has these fields and the server
\* clock as createdAt.
C2_CreateStoresTrimmedOpenOwned ==
    [][ /\ (createTicket /\ ~FormInvalid) =>
              /\ Issued("create")
              /\ SubSeq(inflight', 1, Len(inflight)) = inflight
              /\ docs' = docs
              /\ LET w == inflight'[Len(inflight')] IN
                    /\ w.id \notin DOMAIN LocalView
                    /\ IsTrimOf(w.title, title)
                    /\ IsTrimOf(w.description, description)
                    /\ w.status = "Open"
                    /\ w.userId = user
        /\ DOMAIN docs' # DOMAIN docs =>
              /\ inflight # << >> /\ Head(inflight).kind = "create"
              /\ inflight' = Tail(inflight)
              /\ LET w == Head(inflight) IN
                    /\ w.id \notin DOMAIN docs
                    /\ DOMAIN docs' = DOMAIN docs \cup {w.id}
                    /\ \A i \in DOMAIN docs : docs'[i] = docs[i]
                    /\ docs'[w.id] = [title |-> w.title, description |-> w.description,
                                      status |-> "Open", userId |-> w.userId,
                                      createdAt |-> clock] ]_vars

\* A document created from the form " a " exists, stamped after the clock
\* advanced, while its creator's session is gone.
C2_Witness ==
    \E i \in DOMAIN docs :
        /\ docs[i].title = <<"a">> /\ docs[i].description = <<"a">>
        /\ docs[i].status = "Open"
        /\ docs[i].createdAt > 1
        /\ docs[i].userId # user

\* The write the step appends to the queue.
NewWrite == inflight'[Len(inflight')]

\* C3: deletion is two-step.  A step that opens the confirmation for a ticket,
\* or selects a ticket for deletion, is a delete trigger on that listed ticket
\* and issues no request and removes no document; a delete request is issued
\* only while the confirmation is open, for the ticket it was opened for.
C3_DeleteNeedsConfirm ==
    [][ /\ (PendingDeleteId' # PendingDeleteId /\ PendingDeleteId' # NoId) =>
              /\ \E k \in 1..Len(tickets) :
                    /\ handleDeleteConfirmation(tickets[k])
                    /\ tickets[k].id = PendingDeleteId'
              /\ ConfirmShown'
              /\ inflight' = inflight
              /\ docs' = docs
        /\ (\E k \in 1..Len(tickets) : handleDeleteConfirmation(tickets[k])) =>
              inflight' = inflight /\ docs' = docs
        /\ Issued("delete") =>
              /\ ConfirmShown
              /\ PendingDeleteId # NoId
              /\ NewWrite.id = PendingDeleteId ]_vars

\* The trigger has acted on a ticket: its confirmation is open, no request is
\* queued and the ticket is still in the collection.
C3_Witness ==
    /\ ConfirmShown
    /\ PendingDeleteId \in DOMAIN docs
    /\ inflight = << >>

\* C4: a cancel closes the confirmation, leaves no pending-deletion id
\* selected, issues no delete request and removes no document.
C4_CancelRestoresIdle ==
    [][ onCancel =>
          /\ ~ConfirmShown'
          /\ PendingDeleteId' = NoId
          /\ inflight' = inflight
          /\ docs' = docs ]_vars

\* C10: every delete request targets a ticket owned by the session that is
\* current when the request is issued.
C10_DeleteOnlyByOwner ==
    [][ Issued("delete") =>
          (NewWrite.id \in DOMAIN docs =>
              user # NULL /\ docs[NewWrite.id].userId = user) ]_vars

\* The ticket shows a resolved creation time.
Dated(t) == t.createdAt # Unresolved

\* C5: in every state the displayed list is ordered non-increasingly by
\* creation time, the tickets without a resolved creation time after all
\* dated ones.
C5_ListOrdered ==
    \A k, m \in 1..Len(tickets) :
        k < m =>
            /\ Dated(tickets[m]) => Dated(tickets[k])
            /\ (Dated(tickets[k]) /\ Dated(tickets[m])) =>
                  tickets[k].createdAt >= tickets[m].createdAt

\* The ticket was created through this instance's form (other clients'
\* documents carry another title).
CreatedHere(t) == t.title = <<"a">>

\* C6 as stated: under My Tickets, a ticket this session created successfully
\* is at the first position in every list state in which it is shown.
C6_NewTicketAlwaysFirst ==
    \A k \in 1..Len(tickets) :
        (/\ view = "My Tickets"
         /\ CreatedHere(tickets[k])
         /\ tickets[k].userId = user
         /\ tickets[k].id \in DOMAIN docs) => k = 1

\* C6 amended: under My Tickets, every snapshot delivered to the session
\* lists each ticket the session created that the client still holds, and in
\* every list state in which such a ticket is shown with its resolved creation
\* time it stands before every listed ticket created strictly earlier.
C6_NewTicketBeforeOlder ==
    [][ /\ (\E q \in subs : OnSnapshot(q)) =>
              \A i \in DOMAIN LocalView :
                  (LocalView[i].userId = user /\ CreatedHere(LocalView[i])) =>
                      \E k \in 1..Len(tickets') : tickets'[k].id = i
        /\ \A k, m \in 1..Len(tickets') :
              (/\ CreatedHere(tickets'[k])
               /\ Dated(tickets'[k]) /\ Dated(tickets'[m])
               /\ tickets'[m].createdAt < tickets'[k].createdAt) => k < m ]_vars

\* The session's own new ticket is listed first, before an older ticket.
C6_Witness ==
    /\ view = "My Tickets"
    /\ Len(tickets) = 2
    /\ CreatedHere(tickets[1]) /\ tickets[1].userId = user
    /\ tickets[1].id \in DOMAIN docs
    /\ Dated(tickets[1]) /\ Dated(tickets[2])
    /\ tickets[1].createdAt > tickets[2].createdAt

\* The list holds exactly the tickets of the set S, each once.
ListIs(l, S) ==
    /\ Len(l) = Cardinality(S)
    /\ {l[k] : k \in 1..Len(l)} = S

\* C7: after every step at most one subscription is live; a change of view or
\* session leaves no subscription but the one for the new view and session;
\* and the list is only ever written with the result of a subscription that
\* is live at that moment.
C7_OneLiveSubscription ==
    [][ /\ Cardinality(subs') <= 1
        /\ (view' # view \/ user' # user) =>
              \A q \in subs' :
                  /\ user' # NULL
                  /\ q.owner = IF view' = "My Tickets" THEN user' ELSE NULL
        /\ tickets' # tickets => \E q \in subs : ListIs(tickets', ResultSet(q)) ]_vars

\* The owner-filtered subscription is the only live one while the list still
\* shows a ticket of another owner: the view or the session has changed and
\* the previous subscription is gone.
C7_Witness ==
    /\ view = "My Tickets"
    /\ user # NULL
    /\ subs = {[owner |-> user]}
    /\ \E k \in 1..Len(tickets) : tickets[k].userId # user

\* Every document the client holds, as a ticket: the unfiltered set.
UnfilteredSet == {Ticket(i, LocalView[i]) : i \in DOMAIN LocalView}

\* C8: the switch from My Tickets to All Tickets leaves the unfiltered
\* subscription as the only live one; under All Tickets every list written is
\* exactly the unfiltered set of that snapshot, each ticket once; and no list
\* ever shows a ticket twice.
C8_SwitchToAllReplacesList ==
    [][ /\ (view = "My Tickets" /\ view' = "All Tickets") =>
              subs' = IF user = NULL THEN {} ELSE {[owner |-> NULL]}
        /\ (view = "All Tickets" /\ view' = view /\ tickets' # tickets) =>
              ListIs(tickets', UnfilteredSet)
        /\ \A k, m \in 1..Len(tickets') :
              tickets'[k].id = tickets'[m].id => k = m ]_vars

\* Under All Tickets the list shows tickets of two owners, delivered by the
\* unfiltered subscription.
C8_Witness ==
    /\ view = "All Tickets"
    /\ subs = {[owner |-> NULL]}
    /\ \E k, m \in 1..Len(tickets) : tickets[k].userId # tickets[m].userId

\* C9: no step that issues, completes or fails a write changes the list; the
\* list changes only in a snapshot delivery of a live subscription, and then
\* holds exactly the tickets of that snapshot, each once.
C9_ListOnlyFromSnapshots ==
    [][ /\ (inflight' # inflight \/ docs' # docs) => tickets' = tickets
        /\ tickets' # tickets =>
              /\ \E q \in subs : OnSnapshot(q)
              /\ \E q \in subs : ListIs(tickets', ResultSet(q)) ]_vars

\* A status update has completed and the list still shows the old status.
C9_Witness ==
    /\ inflight = << >>
    /\ \E k \in 1..Len(tickets) :
          /\ tickets[k].id \in DOMAIN docs
          /\ docs[tickets[k].id].status # tickets[k].status

\* C11: the status dropdown of every shown ticket accepts a change, whoever
\* owns the ticket; an update request is issued only for a shown ticket, and
\* when it completes the status of exactly that ticket is the requested one.
C11_UpdateHasNoOwnershipCheck ==
    /\ [](\A k \in 1..Len(tickets) : \A s \in Statuses \ {tickets[k].status} :
            (CardShown(tickets[k]) /\ ~Blocked /\ Len(inflight) < MaxInFlight)
                => ENABLED updateTicketStatus(tickets[k], s))
    /\ [][ /\ Issued("update") =>
                 \E k \in 1..Len(tickets) :
                     /\ CardShown(tickets[k])
                     /\ NewWrite.id = tickets[k].id
                     /\ NewWrite.status \in Statuses \ {tickets[k].status}
           /\ updateDocResolved =>
                 /\ docs'[Head(inflight).id].status = Head(inflight).status
                 /\ \A i \in DOMAIN docs \ {Head(inflight).id} : docs'[i] = docs[i] ]_vars

\* All Tickets lists a ticket of another session with the status this
\* instance gave it.
C11_Witness ==
    /\ user # NULL /\ view = "All Tickets" /\ inflight = << >>
    /\ \E k \in 1..Len(tickets) :
          /\ tickets[k].userId # user
          /\ tickets[k].status # "Open"
          /\ tickets[k].id \in DOMAIN docs
          /\ docs[tickets[k].id].status = tickets[k].status

\* C12: every update request carries one of the three statuses, and no step
\* changes the title, description, owner or creation time of an existing
\* document; so every document has one of the three statuses and keeps the
\* other fields it was created with.
C12_UpdateChangesStatusOnly ==
    /\ [](\A i \in DOMAIN docs : docs[i].status \in Statuses)
    /\ [][ /\ Issued("update") => NewWrite.status \in Statuses
           /\ \A i \in DOMAIN docs \cap DOMAIN docs' :
                 /\ docs'[i].title = docs[i].title
                 /\ docs'[i].description = docs[i].description
                 /\ docs'[i].userId = docs[i].userId
                 /\ docs'[i].createdAt = docs[i].createdAt ]_vars

\* A ticket created here whose status this instance has changed since.
C12_Witness ==
    /\ inflight = << >>
    /\ \E i \in DOMAIN docs :
          /\ docs[i].status = "Resolved"
          /\ docs[i].title = <<"a">>
          /\ docs[i].userId \in Users

\* The number of listed tickets with status s.
Listing(s) == Cardinality({k \in 1..Len(tickets) : tickets[k].status = s})

\* p tenths of a percent is c / n * 100 rounded to the nearest tenth.
IsRounded(p, c, n) == 2 * n * p - 2000 * c \in (0 - n)..n

\* C13: with an empty ticket list the total is 0 and the three percentages
\* are 0, not the result of a division by zero.
C13_EmptyListPercentagesZero ==
    tickets = << >> =>
        /\ stats.total = 0
        /\ stats.openPercent = 0
        /\ stats.inProgressPercent = 0
        /\ stats.resolvedPercent = 0

\* The statistics dashboard is shown over an empty list of a live session.
C13_Witness == StatsShown /\ tickets = << >> /\ subs # {} /\ docs = << >>

\* C14: with N > 0 listed tickets each percentage is its own count / N * 100
\* rounded to one decimal, whatever the other counts; counts (1, 1, 1) give
\* 33.3 three times.
C14_PercentagesRoundedIndependently ==
    Len(tickets) > 0 =>
        /\ IsRounded(stats.openPercent, Listing("Open"), Len(tickets))
        /\ IsRounded(stats.inProgressPercent, Listing("In Progress"), Len(tickets))
        /\ IsRounded(stats.resolvedPercent, Listing("Resolved"), Len(tickets))
        /\ (Listing("Open") = 1 /\ Listing("In Progress") = 1 /\ Listing("Resolved") = 1) =>
              /\ stats.openPercent = 333
              /\ stats.inProgressPercent = 333
              /\ stats.resolvedPercent = 333

\* The dashboard shows counts (1, 1, 1): the percentages sum to 99.9.
C14_Witness ==
    /\ StatsShown
    /\ stats.open = 1 /\ stats.inProgress = 1 /\ stats.resolved = 1
    /\ stats.openPercent + stats.inProgressPercent + stats.resolvedPercent = 999

\* C15: in every state the statistics are the aggregate of the current list:
\* total is its length, each count is the number of listed tickets with that
\* status, and the counts sum to the total.
C15_StatsAggregateCurrentList ==
    /\ stats.total = Len(tickets)
    /\ stats.open = Listing("Open")
    /\ stats.inProgress = Listing("In Progress")
    /\ stats.resolved = Listing("Resolved")
    /\ stats.open + stats.inProgress + stats.resolved = stats.total

\* The dashboard shows three tickets, two of one status and one of another,
\* while the collection already holds other statuses for them.
C15_Witness ==
    /\ StatsShown
    /\ stats.total = 3 /\ stats.inProgress = 2 /\ stats.resolved = 1
    /\ \E k \in 1..Len(tickets) : docs[tickets[k].id].status # tickets[k].status

\* C16: opening Stats from My Tickets starts no other load, and every list
\* delivered while Stats is open holds only tickets of the session, so the
\* statistics count the owner-scoped set and not the whole collection.
C16_StatsCoverOwnerFilter ==
    [][ /\ (view = "My Tickets" /\ view' = "Stats") => subs' = subs
        /\ (view = "Stats" /\ view' = "Stats" /\ user' # NULL /\ tickets' # tickets) =>
              /\ \A k \in 1..Len(tickets') : tickets'[k].userId = user'
              /\ stats'.total = Cardinality({i \in DOMAIN LocalView : LocalView[i].userId = user'}) ]_vars

\* The step is the logged failure of a call to the collection.
Failed == event' \in {"createFailed", "updateFailed", "deleteFailed", "subscribeFailed"}

\* C17 as stated: a failed create, status update, delete or subscription
\* leaves session, view, list, form fields and the pending-deletion selection
\* as they were.
C17_FailureLeavesStateUnchanged ==
    [][ Failed => UNCHANGED <<user, loading, view, tickets, title, description,
                              showConfirmModal, ticketToDeleteId, confirmDialog>> ]_vars

\* C17: a failed call leaves session, view, list and form fields as they
\* were, and adds no document; the pending-deletion selection is left as it
\* was too, except that the failed delete of the modal variant closes the
\* dialog and clears the selected id.
C17_FailureLeavesStateButModal ==
    [][ Failed =>
          /\ UNCHANGED <<user, loading, view, tickets, title, description, docs>>
          /\ IF event' = "deleteFailed" /\ UsesModal
             THEN ~showConfirmModal' /\ ticketToDeleteId' = NoId /\ UNCHANGED confirmDialog
             ELSE UNCHANGED <<showConfirmModal, ticketToDeleteId, confirmDialog>> ]_vars

\* The delete of a listed ticket failed in the modal variant: the ticket is
\* still in the collection and the dialog is closed.
C17_Witness ==
    /\ event = "deleteFailed" /\ UsesModal
    /\ ~showConfirmModal /\ ticketToDeleteId = NoId
    /\ \E k \in 1..Len(tickets) : tickets[k].id \in DOMAIN docs

SignInFailed == signIns # << >> /\ signIns' = Tail(signIns) /\ user' = user

NoSessionReported == user' = NULL /\ (user # NULL \/ (loading /\ ~loading'))

\* C20: each report of no session starts exactly one sign-in attempt, a
\* token sign-in if an initial token was supplied and an anonymous one if
\* not; no other step starts an attempt, and never are two under way.
C20_OneSignInAttempt ==
    /\ [](Len(signIns) <= 1)
    /\ [][ /\ NoSessionReported =>
                 signIns' = Append(signIns, IF token THEN "token" ELSE "anonymous")
           /\ Len(signIns') > Len(signIns) => NoSessionReported ]_vars

\* A session obtained with the token was lost and a token sign-in is under
\* way again.
C20_Witness ==
    /\ token /\ signIns = <<"token">>
    /\ user = NULL /\ ~loading
    /\ \E i \in DOMAIN docs : docs[i].title = <<"a">>

\* The step is a user action that calls the collection: a form submit, a
\* status change or a delete confirm.
UserWrite ==
    \/ createTicket
    \/ \E k \in 1..Len(tickets) : \E s \in Statuses : updateTicketStatus(tickets[k], s)
    \/ deleteTicket

\* The step is the logged failure of a create, update or delete request.
WriteFailed == event' \in {"createFailed", "updateFailed", "deleteFailed"}

\* C21: no step issues more than one request, a request is issued only by a
\* form submit, a status change or a delete confirm, and the failure of a
\* request takes it off the queue without issuing it or any other request
\* again and without changing the collection.
C21_NoAutomaticRetry ==
    [][ /\ Len(inflight') <= Len(inflight) + 1
        /\ Len(inflight') > Len(inflight) =>
              /\ UserWrite
              /\ SubSeq(inflight', 1, Len(inflight)) = inflight
        /\ WriteFailed =>
              /\ inflight # << >>
              /\ inflight' = Tail(inflight)
              /\ docs' = docs ]_vars

\* A status update of a listed ticket failed: nothing is queued and the
\* collection still holds the status the list shows.
C21_Witness ==
    /\ event = "updateFailed"
    /\ inflight = << >>
    /\ \E k \in 1..Len(tickets) :
          /\ tickets[k].id \in DOMAIN docs
          /\ docs[tickets[k].id].status = tickets[k].status

\* C22: initialization runs loading, session acquired, subscribed, snapshot
\* received, ready: loading ends only in a step after which a session exists,
\* a subscription is opened only for an existing session, and the empty list
\* is first filled only by a snapshot of a live subscription.
C22_InitializationOrder ==
    [][ /\ (loading /\ ~loading') => user' # NULL
        /\ (subs' # subs /\ subs' # {}) => user' # NULL
        /\ (tickets = << >> /\ tickets' # << >>) =>
              \E q \in subs : OnSnapshot(q) /\ ListIs(tickets', ResultSet(q)) ]_vars

\* The query the view v and the session u determine.
QueryFor(v, u) == [owner |-> IF v = "My Tickets" THEN u ELSE NULL]

\* C23: every live subscription belongs to an existing session and carries
\* the query of the current view and session, owner-scoped under My Tickets
\* and unfiltered under every other view; a change of view or session leaves
\* exactly the subscription with the new query live, none without a session.
C23_QueryMatchesViewAndSession ==
    /\ [](\A q \in subs : user # NULL /\ q = QueryFor(view, user))
    /\ [][ (view' # view \/ user' # user) =>
              subs' = IF user' = NULL THEN {} ELSE {QueryFor(view', user')} ]_vars

\* Stats is open over two listed tickets: the one live subscription is the
\* unfiltered one.
C23_Witness ==
    /\ view = "Stats" /\ user # NULL
    /\ subs = {[owner |-> NULL]}
    /\ Len(tickets) = 2

\* C24: where the list is sorted on delivery, the list a snapshot displays is
\* a function of the set of tickets of that snapshot: every document order of
\* the same set gives the list that was displayed, also when tickets share a
\* creation time or are undated.
C24_OrderIsFunctionOfSet ==
    [][ \A q \in subs :
          (ClientSort /\ OnSnapshot(q)) =>
              \A p \in Perms(ResultSet(q)) : SortByCreatedAtDesc(p) = tickets' ]_vars

\* C25: a change of view or of session, the loss of the session included,
\* leaves the list as it was; the list changes only when a live subscription
\* delivers, so not at all while there is no session; hence under My Tickets
\* the list can show tickets of other sessions.
C25_ListKeptAcrossSwitch ==
    [][ /\ (view' # view \/ user' # user) => tickets' = tickets
        /\ tickets' # tickets => \E q \in subs : OnSnapshot(q)
        /\ (user = NULL /\ user' = NULL) => tickets' = tickets ]_vars

\* My Tickets is open with its owner-scoped subscription live, and the list
\* still is the unfiltered one: it shows tickets of two owners.
C25_Witness ==
    /\ view = "My Tickets" /\ user # NULL
    /\ subs = {[owner |-> user]}
    /\ \E k, m \in 1..Len(tickets) :
          tickets[k].userId = user /\ tickets[m].userId \notin {user, NULL}

\* The position of ticket i in the list l, 0 when it is not listed.
PositionOf(l, i) == IF \E k \in 1..Len(l) : l[k].id = i
                    THEN CHOOSE k \in 1..Len(l) : l[k].id = i
                    ELSE 0

\* C26: a listed ticket without a resolved creation time has sort key 0 and
\* stands after every dated ticket of the list; it is shown dated only by a
\* later snapshot, with the creation time the server stored, and then stands
\* before every listed ticket created strictly earlier.
C26_UndatedListedLast ==
    [][ /\ \A k, m \in 1..Len(tickets') :
              (~Dated(tickets'[k]) /\ Dated(tickets'[m])) =>
                  (SortKey(tickets'[k]) = 0 /\ m < k)
        /\ \A k \in 1..Len(tickets) :
              LET m == PositionOf(tickets', tickets[k].id) IN
              (~Dated(tickets[k]) /\ m > 0 /\ Dated(tickets'[m])) =>
                  /\ \E q \in subs : OnSnapshot(q)
                  /\ tickets[k].id \in DOMAIN docs
                  /\ tickets'[m].createdAt = docs[tickets[k].id].createdAt
                  /\ \A j \in 1..Len(tickets') :
                        (Dated(tickets'[j]) /\ tickets'[j].createdAt < tickets'[m].createdAt)
                            => m < j ]_vars

\* The queue holds a create request.
CreatePending == \E k \in 1..Len(inflight) : inflight[k].kind = "create"

\* C27: a submit with valid fields and a session can be made and issues a
\* create request whether or not an earlier create is pending; each such
\* submit issues exactly one request carrying the trimmed current form values
\* and leaves the fields as they are; the fields change to empty only when a
\* create completes, so submits made before that carry identical values.
C27_NoInFlightGuard ==
    /\ []((/\ TicketUI /\ ~Blocked /\ ~FormInvalid
           /\ Len(inflight) < MaxCreates /\ nextId <= MaxTickets)
            => ENABLED (createTicket /\ Issued("create")))
    /\ [][ /\ (createTicket /\ ~FormInvalid) =>
                 /\ Issued("create")
                 /\ SubSeq(inflight', 1, Len(inflight)) = inflight
                 /\ NewWrite.title = trim(title)
                 /\ NewWrite.description = trim(description)
                 /\ UNCHANGED <<title, description>>
           /\ ((title' = << >> /\ title # << >>) \/ (description' = << >> /\ description # << >>)) =>
                 /\ CreatePending
                 /\ inflight' = Tail(inflight)
                 /\ Head(inflight).id \in DOMAIN docs' \ DOMAIN docs ]_vars

\* Two creates of one session with the same title and description are
\* pending together.
C27_Witness ==
    /\ Len(inflight) = 2
    /\ inflight[1].kind = "create" /\ inflight[2].kind = "create"
    /\ inflight[1].id # inflight[2].id
    /\ inflight[1].userId = inflight[2].userId
    /\ inflight[1].title = <<"c">> /\ inflight[2].title = <<"c">>
    /\ inflight[1].description = inflight[2].description

\* The ids selected for deletion in the dialog state of either kind.
PendingDeletions == {ticketToDeleteId, confirmDialog} \ {NoId}

\* C28: at most one ticket id is pending deletion; a delete trigger makes the
\* id of its ticket the pending one, replacing any earlier one, and nothing
\* else selects an id; a confirm issues one delete request, for the pending
\* id; and a completed delete removes the ticket of its request and no other.
C28_OnePendingDeletion ==
    /\ [](Cardinality(PendingDeletions) <= 1)
    /\ [][ /\ \A k \in 1..Len(tickets) :
                 handleDeleteConfirmation(tickets[k]) => PendingDeleteId' = tickets[k].id
           /\ (PendingDeleteId' # PendingDeleteId /\ PendingDeleteId' # NoId) =>
                 \E k \in 1..Len(tickets) : handleDeleteConfirmation(tickets[k])
           /\ Issued("delete") =>
                 /\ deleteTicket
                 /\ NewWrite.id = PendingDeleteId
                 /\ SubSeq(inflight', 1, Len(inflight)) = inflight
           /\ (\E i \in DOMAIN docs : i \notin DOMAIN docs' /\ inflight' # inflight) =>
                 /\ Head(inflight).kind = "delete"
                 /\ DOMAIN docs' = DOMAIN docs \ {Head(inflight).id}
                 /\ \A i \in DOMAIN docs' : docs'[i] = docs[i] ]_vars

\* Two tickets of the session are listed and in the collection; the delete of
\* the second one, the one selected, has been confirmed and is under way.
C28_Witness ==
    /\ Len(tickets) = 2
    /\ \A k \in 1..2 : tickets[k].userId = user /\ tickets[k].id \in DOMAIN docs
    /\ Len(inflight) = 1 /\ inflight[1].kind = "delete"
    /\ inflight[1].id = tickets[2].id
    /\ UsesModal => ticketToDeleteId = tickets[2].id

\* The step completes the create request at the head of the queue: the
\* server has added its document.
CreateSucceeded ==
    /\ inflight # << >> /\ Head(inflight).kind = "create"
    /\ inflight' = Tail(inflight)
    /\ Head(inflight).id \in DOMAIN docs' \ DOMAIN docs

\* C29: the step in which a create request succeeds leaves both form fields
\* empty; the step in which a create request fails, a submit that validation
\* rejects and a submit that issues a request leave both fields as they were.
C29_FormResetOnSuccessOnly ==
    [][ /\ CreateSucceeded => (title' = << >> /\ description' = << >>)
        /\ event' = "createFailed" => UNCHANGED <<title, description>>
        /\ event' = "createRejected" => UNCHANGED <<title, description>>
        /\ createTicket => UNCHANGED <<title, description>> ]_vars

\* A create has failed and the form still holds what was typed; an earlier
\* create had succeeded, after which the form was filled again.
C29_Witness ==
    /\ event = "createFailed"
    /\ ~Blank(title) /\ ~Blank(description)
    /\ \E i \in DOMAIN docs : docs[i].title = <<"a">>

\* The id was assigned to a document that is no longer in the collection.
Deleted(i) ==
    /\ i < nextId
    /\ i \notin DOMAIN docs
    /\ ~\E k \in 1..Len(inflight) : inflight[k].kind = "create" /\ inflight[k].id = i

\* C30: a status update that reaches the collection after its ticket was
\* deleted ends as a logged failure that changes neither the collection nor
\* the list; a deleted ticket never is in the collection again, and no
\* snapshot delivered while it is deleted lists it.
C30_UpdateAfterDeleteFails ==
    [][ /\ (/\ inflight # << >> /\ Head(inflight).kind = "update"
            /\ Deleted(Head(inflight).id)
            /\ inflight' = Tail(inflight)) =>
                 (event' = "updateFailed" /\ docs' = docs /\ tickets' = tickets)
        /\ \A i \in Ids : Deleted(i) => Deleted(i)'
        /\ \A q \in subs : OnSnapshot(q) =>
              \A i \in Ids : Deleted(i) => ~\E k \in 1..Len(tickets') : tickets'[k].id = i ]_vars

\* The only ticket there ever was has been deleted by another client while
\* listed here; the status update issued from its card has failed.
C30_Witness ==
    /\ event = "updateFailed"
    /\ nextId = 2 /\ docs = << >>
    /\ Len(tickets) = 1 /\ tickets[1].id = 1
    /\ inflight = << >>

====
